---- MODULE Spec2Model ----
(***************************************************************************)
(* A model of the erl_pp preprocessor.                                     *)
(*                                                                         *)
(*   - src/src/preprocessor.rs : the pull driver (Preprocessor), its       *)
(*     speculative directive reader and its macro table;                   *)
(*   - src/src/directives.rs   : the typed directives, Define::expand,     *)
(*     the ReadFrom parsers and the Display renderings.                    *)
(*                                                                         *)
(* A token is modelled by its source text; in the driver a token is named  *)
(* by its index in the input, which also serves as its start position.     *)
(***************************************************************************)
EXTENDS Integers, Sequences, FiniteSets, TLC

VARIABLES
    input,                \* the token texts the tokenizer supplies
    errConsumes,          \* whether a failing *_or_error read consumed the token
    reader,               \* TokenReader: [pos, txs]
    can_directive_start,  \* Preprocessor.can_directive_start
    macros,               \* Preprocessor.macros : name -> index into directives
    directives,           \* Preprocessor.directives
    output,               \* the items the sequence has yielded so far
    status,               \* "running", or "panicked" once the process aborted
    skipped,              \* the tokens consumed by pulls that ended in an error or a panic
    last,                 \* what the latest pull did
    definition,           \* directives.rs: the Define that expand is called on
    arguments,            \* directives.rs: the argument slices passed to expand
    result,               \* directives.rs: what the call returned
    phase,                \* "idle", "call" (before the call) or "returned"
    source,               \* directives.rs: the source text of one directive, as token texts
    parsed,               \* directives.rs: the directive read from it
    rendered,             \* directives.rs: its Display rendering
    step,                 \* "idle", "source", "parsed" or "rendered"
    path,                 \* directives.rs: IncludeLib.path, as its components
    code_paths,           \* directives.rs: the search paths passed to include_lib
    tree,                 \* the directory listing of each search path
    included,             \* directives.rs: what include_lib returned
    call                  \* "idle", "call" (before the call) or "returned"

driver == <<input, errConsumes, reader, can_directive_start, macros,
            directives, output, status, skipped, last>>
expander == <<definition, arguments, result, phase>>
formatter == <<source, parsed, rendered, step>>
resolver == <<path, code_paths, tree, included, call>>
vars == <<driver, expander, formatter, resolver>>

(***************************************************************************)
(* Bounds                                                                  *)
(***************************************************************************)
MaxChunks == 3
MaxTemplate == 3
MaxArgs == 2
MaxGaps == 1
MaxRoots == 2

(***************************************************************************)
(* Lexical classes (erl_tokenize): decided by the token's text.            *)
(***************************************************************************)
Trivia == {" ", "%c"}
Symbols == {"-", "(", ")", ",", ".", "+", "??"}
Variables == {"M", "N", "X", "Y"}
Keywords == {"include", "include_lib", "define", "undef", "ifdef", "ifndef",
             "else", "endif", "error", "warning"}
Atoms == Keywords \cup {"a", "b", "m"}

IsTrivia(t) == t \in Trivia
IsSymbol(t) == t \in Symbols
IsVariable(t) == t \in Variables
IsAtom(t) == t \in Atoms

(***************************************************************************)
(* Inputs: up to MaxChunks source fragments, concatenated.                 *)
(***************************************************************************)
Chunks ==
    { <<"-", "define", "(", "M", ",", "a", ")", ".", " ">>,
      <<"-", "define", "(", "M", "(", "X", ")", ",", " ", "(", "X", ")", "b", ")", ".", " ">>,
      <<"-", "define", "(", "N", ",", "b", ")", ".", " ">>,
      <<"-", "define", "(", "N", "(", "X", ")", " ", "b", ")", ".", " ">>,
      <<"-", "undef", "(", "M", ")", ".", " ">>,
      <<"-", "ifdef", "(", "M", ")", ".", " ">>,
      <<"-", "else", ".", " ">>,
      <<"-", "endif">>,
      <<"-", "error", "(", "a", ")", ".">>,
      <<"-", "undef", "(", "M">>,
      <<"-", "m", ".", " ">>,
      <<"M">>,
      <<".">> }

RECURSIVE Programs(_)
Programs(n) ==
    IF n = 0 THEN {<<>>}
    ELSE LET shorter == Programs(n - 1)
         IN shorter \cup {p \o c : p \in shorter, c \in Chunks}

(***************************************************************************)
(* TokenReader (module token_reader).  An index into the token vector and  *)
(* a stack of saved indices, one per open transaction.                     *)
(***************************************************************************)
Ok(r, v) == [ok |-> TRUE, rd |-> r, val |-> v]
Fail(r) == [ok |-> FALSE, rd |-> r, val |-> 0]

AtEnd(r) == r.pos > Len(input)
Peek(r) == IF AtEnd(r) THEN "<eof>" ELSE input[r.pos]
Advance(r) == [r EXCEPT !.pos = r.pos + 1]
\* the reader after a read that failed on a token that does not match
Mismatch(r) == IF errConsumes /\ ~AtEnd(r) THEN Advance(r) ELSE r

start_transaction(r) == [r EXCEPT !.txs = Append(r.txs, r.pos)]
abort_transaction(r) ==
    [pos |-> r.txs[Len(r.txs)], txs |-> SubSeq(r.txs, 1, Len(r.txs) - 1)]
\* the tokens buffered by the innermost transaction are from .. to - 1
commit_transaction(r) ==
    [rd |-> [r EXCEPT !.txs = SubSeq(r.txs, 1, Len(r.txs) - 1)],
     from |-> r.txs[Len(r.txs)], to |-> r.pos]
position(r) == r.pos

\* Option<Token>: val is the index of the token read, 0 for None
read(r) == IF AtEnd(r) THEN Ok(r, 0) ELSE Ok(Advance(r), r.pos)
read_or_error(r) == IF AtEnd(r) THEN Fail(r) ELSE Ok(Advance(r), r.pos)
read_symbol_if(r, s) == IF Peek(r) = s THEN Ok(Advance(r), r.pos) ELSE Ok(r, 0)
read_atom(r) == IF IsAtom(Peek(r)) THEN Ok(Advance(r), r.pos) ELSE Ok(r, 0)
read_variable(r) == IF IsVariable(Peek(r)) THEN Ok(Advance(r), r.pos) ELSE Ok(r, 0)
read_symbol_or_error(r) ==
    IF IsSymbol(Peek(r)) THEN Ok(Advance(r), r.pos) ELSE Fail(Mismatch(r))
read_expected_symbol_or_error(r, s) ==
    IF Peek(r) = s THEN Ok(Advance(r), r.pos) ELSE Fail(Mismatch(r))
read_variable_or_error(r) ==
    IF IsVariable(Peek(r)) THEN Ok(Advance(r), r.pos) ELSE Fail(Mismatch(r))

RECURSIVE skip_whitespace_or_comment(_)
skip_whitespace_or_comment(r) ==
    IF IsTrivia(Peek(r)) THEN skip_whitespace_or_comment(Advance(r)) ELSE r

\* MacroName: equality and hashing are by the underlying text
MacroNameOf(i) == input[i]

(***************************************************************************)
(* Preprocessor: the directive readers                                     *)
(***************************************************************************)
NoVars == [some |-> FALSE, names |-> <<>>]
SomeVars(vs) == [some |-> TRUE, names |-> vs]

Directive(kind, name, vs, s, e, c) ==
    [kind |-> kind, name |-> name, vars |-> vs,
     start |-> s, end |-> e, from |-> c.from, to |-> c.to]

\* `let x = e; body`: e is evaluated once and its value named in the body
Let(e, Body(_)) == CHOOSE y \in {Body(x) : x \in {e}} : TRUE
\* `let x = track_try!(e); body`: an Err of e is returned at once
track_try(e, Body(_)) == CHOOSE y \in {IF x.ok THEN Body(x) ELSE x : x \in {e}} : TRUE

\* loop { read a token; on ")" skip trivia and stop if a "." follows }
RECURSIVE skip_remaining_directive_tokens(_)
skip_remaining_directive_tokens(r) ==
    track_try(read_or_error(r), LAMBDA t :
        IF input[t.val] = ")"
        THEN Let(read_symbol_if(skip_whitespace_or_comment(t.rd), "."), LAMBDA d :
                 IF d.val # 0 THEN Ok(d.rd, t.val)
                 ELSE skip_remaining_directive_tokens(d.rd))
        ELSE skip_remaining_directive_tokens(t.rd))

read_macro_replacement(r) == skip_remaining_directive_tokens(r)

read_macro_name(r) ==
    Let(read_atom(r), LAMBDA a :
        IF a.val # 0 THEN Ok(a.rd, MacroNameOf(a.val))
        ELSE Let(read_variable(r), LAMBDA v :
                 IF v.val # 0 THEN Ok(v.rd, MacroNameOf(v.val))
                 ELSE Fail(read(r).rd)))   \* the error message is built from reader.read()

RECURSIVE read_macro_vars_from(_, _)
read_macro_vars_from(r, vs) ==
    track_try(read_variable_or_error(skip_whitespace_or_comment(r)), LAMBDA v :
    track_try(read_symbol_or_error(skip_whitespace_or_comment(v.rd)), LAMBDA s :
        IF input[s.val] = "," THEN read_macro_vars_from(s.rd, Append(vs, input[v.val]))
        ELSE IF input[s.val] = ")" THEN Ok(s.rd, Append(vs, input[v.val]))
        ELSE Fail(s.rd)))

read_macro_vars(r) == read_macro_vars_from(r, <<>>)

read_parenthesized_macro_name(r) ==
    track_try(read_expected_symbol_or_error(skip_whitespace_or_comment(r), "("), LAMBDA a :
    track_try(read_macro_name(skip_whitespace_or_comment(a.rd)), LAMBDA n :
    track_try(read_expected_symbol_or_error(skip_whitespace_or_comment(n.rd), ")"), LAMBDA c :
    track_try(read_expected_symbol_or_error(skip_whitespace_or_comment(c.rd), "."), LAMBDA d :
        Ok(d.rd, n.val)))))

read_undef_directive(r) ==
    track_try(read_parenthesized_macro_name(r), LAMBDA n :
    Let(commit_transaction(n.rd), LAMBDA c :
        Ok(c.rd, Directive("undef", n.val, NoVars, 0, 0, c))))

read_message_directive(r, kind) ==
    track_try(read_expected_symbol_or_error(skip_whitespace_or_comment(r), "("), LAMBDA a :
    track_try(skip_remaining_directive_tokens(a.rd), LAMBDA e :
    Let(commit_transaction(e.rd), LAMBDA c :
        \* message_start = reader.position() after the "(", message_end = the ")"
        Ok(c.rd, Directive(kind, "", NoVars, position(a.rd), e.val, c)))))

read_error_directive(r) == read_message_directive(r, "error")
read_warning_directive(r) == read_message_directive(r, "warning")

\* match symbol { Comma => None, OpenParen => Some(read_macro_vars()), s => Err }
read_define_vars(s) ==
    IF input[s.val] = "," THEN Ok(s.rd, NoVars)
    ELSE IF input[s.val] = "("
    THEN track_try(read_macro_vars(s.rd), LAMBDA vs : Ok(vs.rd, SomeVars(vs.val)))
    ELSE Fail(s.rd)

read_define_directive(r) ==
    track_try(read_expected_symbol_or_error(skip_whitespace_or_comment(r), "("), LAMBDA a :
    track_try(read_macro_name(skip_whitespace_or_comment(a.rd)), LAMBDA n :
    track_try(read_symbol_or_error(skip_whitespace_or_comment(n.rd)), LAMBDA s :
    track_try(read_define_vars(s), LAMBDA v :
    \* replacement_start = reader.position() here
    track_try(read_macro_replacement(v.rd), LAMBDA e :
    Let(commit_transaction(e.rd), LAMBDA c :
        Ok(c.rd, Directive("define", n.val, v.val, position(v.rd), e.val, c))))))))

(***************************************************************************)
(* HashMap<MacroName, usize>                                               *)
(***************************************************************************)
Insert(m, k, v) == [x \in DOMAIN m \cup {k} |-> IF x = k THEN v ELSE m[x]]
Remove(m, k) == [x \in DOMAIN m \ {k} |-> m[x]]
EmptyMap == [x \in {} |-> 0]

Unimplemented == {"include", "include_lib", "ifdef", "ifndef", "else", "endif"}

\* a define that keeps an earlier definition of the same name
define_effect_keep_first(m, d, ndirs) ==
    IF d.name \in DOMAIN m THEN m ELSE Insert(m, d.name, ndirs)
\* a define that stores the length of the list after the push
define_effect_after_push(m, d, ndirs) == Insert(m, d.name, ndirs + 1)
\* an undef that forgets to remove the entry
undef_effect_noop(m, d) == m

\* the table after a recognized define directive d, ndirs directives recorded so far
define_effect(m, d, ndirs) == Insert(m, d.name, ndirs)
undef_effect(m, d) == Remove(m, d.name)

Found(kind, r, m, ds) == [kind |-> kind, rd |-> r, macros |-> m, dir |-> ds]

\* what the dispatch on the keyword atom does
dispatch(kw, r, m, ndirs) ==
    IF kw \in Unimplemented THEN Found("panic", r, m, <<>>)
    ELSE IF kw = "define"
    THEN Let(read_define_directive(r), LAMBDA d :
             IF d.ok THEN Found("ok", d.rd, define_effect(m, d.val, ndirs), <<d.val>>)
             ELSE Found("err", d.rd, m, <<>>))
    ELSE IF kw = "undef"
    THEN Let(read_undef_directive(r), LAMBDA d :
             IF d.ok THEN Found("ok", d.rd, undef_effect(m, d.val), <<d.val>>)
             ELSE Found("err", d.rd, m, <<>>))
    ELSE IF kw = "error"
    THEN Let(read_error_directive(r), LAMBDA d :
             IF d.ok THEN Found("ok", d.rd, m, <<d.val>>)
             ELSE Found("err", d.rd, m, <<>>))
    ELSE IF kw = "warning"
    THEN Let(read_warning_directive(r), LAMBDA d :
             IF d.ok THEN Found("ok", d.rd, m, <<d.val>>)
             ELSE Found("err", d.rd, m, <<>>))
    ELSE Found("ok", r, m, <<>>)

try_read_directive(r, m, ndirs) ==
    Let(read_symbol_if(r, "-"), LAMBDA h :
        IF h.val = 0 THEN Found("ok", h.rd, m, <<>>)
        ELSE Let(read_atom(skip_whitespace_or_comment(h.rd)), LAMBDA atom :
                 IF atom.val = 0 THEN Found("ok", atom.rd, m, <<>>)
                 ELSE dispatch(input[atom.val], atom.rd, m, ndirs)))

\* a flag that whitespace and comments clear as well
flag_after_any(flag, t) == t = "."

\* the flag after emitting token text t
flag_after(flag, t) ==
    IF IsTrivia(t) THEN flag
    ELSE IF IsSymbol(t) THEN t = "."
    ELSE FALSE

\* a driver that rewinds the reader after a recognized directive as well
after_attempt_rewind(d) ==
    IF d.dir # <<>> THEN [d.rd EXCEPT !.pos = d.dir[1].from] ELSE abort_transaction(d.rd)

\* a driver that never rolls the speculative read back
after_attempt_keep(d) == d.rd

\* the reader once the speculative read has ended: a recognized directive has been
\* committed by its reader, anything else is rolled back
after_attempt(d) == IF d.dir # <<>> THEN d.rd ELSE abort_transaction(d.rd)

Pulled(kind, r, flag, m, ds, tok, attempted, found) ==
    [kind |-> kind, rd |-> r, flag |-> flag, macros |-> m, directives |-> ds,
     tok |-> tok, attempted |-> attempted, found |-> found]

\* the part of next_token after the directive attempt d
read_and_emit(d, flag, ds) ==
    Let(read(IF flag THEN after_attempt(d) ELSE d.rd), LAMBDA t :
        IF t.val # 0
        THEN Pulled("token", t.rd, flag_after(flag, input[t.val]), d.macros, ds \o d.dir,
                    t.val, flag, d.dir # <<>>)
        ELSE Pulled("end", t.rd, flag, d.macros, ds \o d.dir, 0, flag, d.dir # <<>>))

next_token(r, flag, m, ds) ==
    Let(IF flag THEN try_read_directive(start_transaction(r), m, Len(ds))
        ELSE Found("ok", r, m, <<>>), LAMBDA d :
        IF d.kind = "panic" THEN Pulled("panic", d.rd, flag, m, ds, 0, flag, FALSE)
        ELSE IF d.kind = "err" THEN Pulled("error", d.rd, flag, m, ds, 0, flag, FALSE)
        ELSE read_and_emit(d, flag, ds))

(***************************************************************************)
(* The driver as a state machine: one action, a pull of the sequence.      *)
(***************************************************************************)
DriverIdle ==
    /\ input = <<>>
    /\ errConsumes = FALSE
    /\ reader = [pos |-> 1, txs |-> <<>>]
    /\ can_directive_start = TRUE
    /\ macros = EmptyMap
    /\ directives = <<>>
    /\ output = <<>>
    /\ status = "running"
    /\ skipped = {}
    /\ last = [kind |-> "none", tok |-> 0, attempted |-> FALSE, found |-> FALSE,
               before |-> EmptyMap, at |-> 1]

ExpanderIdle ==
    /\ definition = [vars |-> NoVars, replacement |-> <<>>]
    /\ arguments = <<>>
    /\ result = [kind |-> "none", tokens |-> <<>>]
    /\ phase = "idle"

FormatterIdle ==
    /\ source = <<>>
    /\ parsed = [ok |-> FALSE]
    /\ rendered = ""
    /\ step = "idle"

ResolverIdle ==
    /\ path = <<>>
    /\ code_paths = <<>>
    /\ tree = <<>>
    /\ included = [kind |-> "none", path |-> <<>>, read |-> <<>>, globbed |-> <<>>]
    /\ call = "idle"

Init ==
    /\ ExpanderIdle
    /\ FormatterIdle
    /\ ResolverIdle
    /\ input \in Programs(MaxChunks)
    /\ errConsumes \in BOOLEAN
    /\ reader = [pos |-> 1, txs |-> <<>>]
    /\ can_directive_start = TRUE
    /\ macros = EmptyMap
    /\ directives = <<>>
    /\ output = <<>>
    /\ status = "running"
    /\ skipped = {}
    /\ last = [kind |-> "none", tok |-> 0, attempted |-> FALSE, found |-> FALSE,
               before |-> EmptyMap, at |-> 1]

\* Iterator::next
Pull ==
    /\ status = "running"
    /\ \E p \in {next_token(reader, can_directive_start, macros, directives)} :
           /\ reader' = p.rd
           /\ can_directive_start' = p.flag
           /\ macros' = p.macros
           /\ directives' = p.directives
           /\ output' = IF p.kind = "token" THEN Append(output, p.tok) ELSE output
           /\ status' = IF p.kind = "panic" THEN "panicked" ELSE "running"
           /\ skipped' = IF p.kind \in {"error", "panic"}
                         THEN skipped \cup (reader.pos .. (p.rd.pos - 1))
                         ELSE skipped
           /\ last' = [kind |-> p.kind, tok |-> p.tok, attempted |-> p.attempted,
                       found |-> p.found, before |-> macros, at |-> reader.pos]
    /\ UNCHANGED <<input, errConsumes>>
    /\ UNCHANGED <<expander, formatter, resolver>>

Next == Pull

Spec == Init /\ [][Next]_vars

(***************************************************************************)
(* directives.rs: Define::expand.  A lexical token is [kind, text, pos];   *)
(* LexicalToken has no whitespace or comment tokens.                       *)
(***************************************************************************)
Strings == {"\"f\""}
KindOf(t) ==
    IF t \in Symbols THEN "symbol"
    ELSE IF t \in Strings THEN "string"
    ELSE IF t \in Variables THEN "variable"
    ELSE IF t \in Atoms THEN "atom"
    ELSE "integer"
Tok(t, p) == [kind |-> KindOf(t), text |-> t, pos |-> p]
\* StringToken::from_value(value, pos)
StringToken(v, p) == [kind |-> "string", text |-> "\"" \o v \o "\"", pos |-> p]

Returned(kind, toks) == [kind |-> kind, tokens |-> toks]

Min(a, b) == IF a < b THEN a ELSE b

\* vars.iter().map(|v| v.value()).zip(args.iter()).collect::<HashMap>():
\* zip stops at the shorter side, a later pair overwrites an earlier one
binds_of(names, args) ==
    LET n == Min(Len(names), Len(args))
    IN  [v \in {names[i] : i \in 1..n} |->
            args[CHOOSE i \in 1..n : names[i] = v /\ \A j \in (i + 1)..n : names[j] # v]]

\* val.iter().map(|t| t.text()).collect::<String>()
RECURSIVE text_of(_)
text_of(val) == IF val = <<>> THEN "" ELSE val[1].text \o text_of(Tail(val))

\* a splice that keeps only the first token of the argument
spliced_first(val) == IF val = <<>> THEN <<>> ELSE <<val[1]>>
\* tokens.extend(val.iter().cloned())
spliced(val) == val

\* a stringification that renders only the first token of the argument
stringified_first(val) == StringToken(val[1].text, val[1].pos)
\* StringToken::from_value(&text, val.first().unwrap().start_position())
stringified(val) == StringToken(text_of(val), val[1].pos)

RECURSIVE expand_from(_, _, _, _)
expand_from(binds, template, i, tokens) ==
    IF i > Len(template) THEN Returned("ok", tokens)
    ELSE LET t == template[i]
         IN  IF t.text \in DOMAIN binds
             THEN expand_from(binds, template, i + 1, tokens \o spliced(binds[t.text]))
             ELSE IF t.kind = "symbol" /\ t.text = "??"
             THEN IF i + 1 > Len(template) THEN Returned("err", <<>>)
                  ELSE IF template[i + 1].text \notin DOMAIN binds THEN Returned("err", <<>>)
                  ELSE IF binds[template[i + 1].text] = <<>> THEN Returned("panic", <<>>)
                  ELSE expand_from(binds, template, i + 2,
                                   Append(tokens, stringified(binds[template[i + 1].text])))
             ELSE expand_from(binds, template, i + 1, Append(tokens, t))

\* an expansion that scans its own result for parameter names and ?? once more
expand_rescan(d, args) ==
    IF ~d.vars.some THEN Returned("panic", <<>>)
    ELSE LET r == expand_from(binds_of(d.vars.names, args), d.replacement, 1, <<>>)
         IN  IF r.kind = "ok"
             THEN expand_from(binds_of(d.vars.names, args), r.tokens, 1, <<>>)
             ELSE r

\* Define::expand(&self, args)
expand(d, args) ==
    IF ~d.vars.some THEN Returned("panic", <<>>)      \* assert!(self.variables.is_some())
    ELSE expand_from(binds_of(d.vars.names, args), d.replacement, 1, <<>>)

\* the inputs of the calls that are explored
TemplateTexts == {"X", "Y", "+", "??"}
RECURSIVE TextSeqs(_)
TextSeqs(n) ==
    IF n = 0 THEN {<<>>}
    ELSE LET shorter == TextSeqs(n - 1)
         IN shorter \cup {Append(q, t) : q \in shorter, t \in TemplateTexts}
Templates == {[i \in 1..Len(q) |-> Tok(q[i], i)] : q \in TextSeqs(MaxTemplate)}
VarLists == {NoVars, SomeVars(<<"X">>), SomeVars(<<"X", "Y">>)}
ArgSlices ==
    { <<>>,
      <<Tok("1", 21)>>,
      <<Tok("1", 31), Tok("2", 32)>>,
      <<Tok("Y", 41)>>,
      <<Tok("??", 51), Tok("X", 52)>> }
RECURSIVE ArgLists(_)
ArgLists(n) ==
    IF n = 0 THEN {<<>>}
    ELSE LET shorter == ArgLists(n - 1)
         IN shorter \cup {Append(q, a) : q \in shorter, a \in ArgSlices}

InitExpand ==
    /\ DriverIdle
    /\ FormatterIdle
    /\ ResolverIdle
    /\ definition \in [vars : VarLists, replacement : Templates]
    /\ arguments \in ArgLists(MaxArgs)
    /\ result = [kind |-> "none", tokens |-> <<>>]
    /\ phase = "call"

Expand ==
    /\ phase = "call"
    /\ result' = expand(definition, arguments)
    /\ phase' = "returned"
    /\ UNCHANGED <<definition, arguments>>
    /\ UNCHANGED <<driver, formatter, resolver>>

NextExpand == Expand

SpecExpand == InitExpand /\ [][NextExpand]_vars

(***************************************************************************)
(* Vocabulary of the claims about Define::expand                           *)
(***************************************************************************)
Names == definition.vars.names
Template == definition.replacement
Distinct(q) == \A i, j \in 1..Len(q) : q[i] = q[j] => i = j
\* the parameters that have an argument, and the argument of each
BoundNames == {Names[i] : i \in 1..Min(Len(Names), Len(arguments))}
ArgumentOf(v) == arguments[CHOOSE i \in 1..Len(Names) : Names[i] = v]
\* template token i opens a ?? pair / is the second token of one
RECURSIVE PairStart(_)
PairStart(i) ==
    /\ i >= 1
    /\ Template[i].text = "??"
    /\ ~PairStart(i - 1)
PairSecond(i) == i > 1 /\ PairStart(i - 1)
\* every ?? pair names a bound parameter whose argument has a first token
PairsApplicable ==
    \A i \in 1..Len(Template) :
        PairStart(i) =>
            /\ i < Len(Template)
            /\ Template[i + 1].text \in BoundNames
            /\ ArgumentOf(Template[i + 1].text) # <<>>
\* how many tokens template token i contributes, and where they start
Width(i) ==
    IF PairSecond(i) THEN 0
    ELSE IF PairStart(i) THEN 1
    ELSE IF Template[i].text \in BoundNames THEN Len(ArgumentOf(Template[i].text))
    ELSE 1
RECURSIVE Offset(_)
Offset(i) == IF i <= 1 THEN 0 ELSE Offset(i - 1) + Width(i - 1)
\* the source text of a token sequence, last token outwards
RECURSIVE Joined(_)
Joined(q) ==
    IF Len(q) = 0 THEN ""
    ELSE Joined(SubSeq(q, 1, Len(q) - 1)) \o q[Len(q)].text

\* C5: with distinct parameters and exactly as many argument slices as parameters,
\* expand returns the template in order, each token whose text is a parameter name
\* replaced by the whole token sequence of that parameter's argument and every
\* other token outside a ?? pair copied unchanged.
C5_Substitution ==
    ( /\ phase = "returned"
      /\ definition.vars.some /\ Distinct(Names) /\ Len(arguments) = Len(Names)
      /\ PairsApplicable )
    => /\ result.kind = "ok"
       /\ Len(result.tokens) = Offset(Len(Template) + 1)
       /\ \A i \in 1..Len(Template) :
             (~PairStart(i) /\ ~PairSecond(i)) =>
                 SubSeq(result.tokens, Offset(i) + 1, Offset(i) + Width(i))
                    = IF Template[i].text \in BoundNames
                      THEN ArgumentOf(Template[i].text)
                      ELSE <<Template[i]>>
C5_Witness ==
    /\ phase = "returned"
    /\ Names = <<"X", "Y">>
    /\ [i \in 1..Len(Template) |-> Template[i].text] = <<"X", "+", "Y">>
    /\ arguments = <<<<Tok("1", 21)>>, <<Tok("1", 31), Tok("2", 32)>>>>
    /\ [i \in 1..Len(result.tokens) |-> result.tokens[i].text] = <<"1", "+", "1", "2">>

\* C6: a ?? template token followed by a template token naming a bound parameter
\* (whose argument has a first token) is replaced, as a pair, by exactly one string
\* token: its value is the concatenated source text of the argument's tokens and
\* its position the start of the argument's first token.
C6_Stringify ==
    ( /\ phase = "returned"
      /\ definition.vars.some /\ Distinct(Names)
      /\ PairsApplicable )
    => /\ result.kind = "ok"
       /\ Len(result.tokens) = Offset(Len(Template) + 1)
       /\ \A i \in 1..Len(Template) :
             PairStart(i) =>
                 LET a == ArgumentOf(Template[i + 1].text)
                 IN  result.tokens[Offset(i) + 1]
                        = [kind |-> "string",
                           text |-> "\"" \o Joined(a) \o "\"",
                           pos |-> a[1].pos]
C6_Witness ==
    /\ phase = "returned"
    /\ Names = <<"X">>
    /\ [i \in 1..Len(Template) |-> Template[i].text] = <<"??", "X">>
    /\ arguments = <<<<Tok("1", 31), Tok("2", 32)>>>>
    /\ result = [kind |-> "ok", tokens |-> <<StringToken("12", 31)>>]

\* C7: expand called with a number of argument slices different from the number of
\* declared parameters fails with an arity-mismatch error and returns no tokens.
C7_ArityMismatchFails ==
    ( /\ phase = "returned"
      /\ definition.vars.some
      /\ Len(arguments) # Len(Names) )
    => result = [kind |-> "err", tokens |-> <<>>]

\* a second scan of argument a would find something to substitute: a token with the
\* text of a declared parameter, or ??
Rescannable(a) ==
    \E j \in 1..Len(a) : a[j].text = "??" \/ \E n \in 1..Len(Names) : a[j].text = Names[n]

\* C20: expand is single-pass: the tokens spliced in from an argument are not
\* substituted again, so an argument whose tokens have the text of a parameter name
\* or contain ?? appears in the result exactly as supplied (and a stringified one
\* renders exactly its own text).
C20_SinglePass ==
    ( /\ phase = "returned"
      /\ definition.vars.some /\ Distinct(Names)
      /\ PairsApplicable )
    => /\ result.kind = "ok"
       /\ \A i \in 1..Len(Template) :
             /\ ( /\ ~PairStart(i) /\ ~PairSecond(i)
                  /\ Template[i].text \in BoundNames
                  /\ Rescannable(ArgumentOf(Template[i].text)) )
                => \A j \in 1..Len(ArgumentOf(Template[i].text)) :
                       /\ Offset(i) + j <= Len(result.tokens)
                       /\ result.tokens[Offset(i) + j] = ArgumentOf(Template[i].text)[j]
             /\ (PairStart(i) /\ Rescannable(ArgumentOf(Template[i + 1].text)))
                => /\ Offset(i) + 1 <= Len(result.tokens)
                   /\ result.tokens[Offset(i) + 1].text
                         = "\"" \o Joined(ArgumentOf(Template[i + 1].text)) \o "\""
C20_Witness ==
    /\ phase = "returned"
    /\ Names = <<"X", "Y">>
    /\ [i \in 1..Len(Template) |-> Template[i].text] = <<"X", "Y">>
    /\ arguments = <<<<Tok("Y", 41)>>, <<Tok("??", 51), Tok("X", 52)>>>>
    /\ result = [kind |-> "ok", tokens |-> <<Tok("Y", 41), Tok("??", 51), Tok("X", 52)>>]

\* C24: for a parameterized definition expand returns a token sequence or an error
\* value for every argument list, empty argument slices included: it never aborts,
\* in particular not when ?? is applied to a parameter bound to an empty argument.
C24_ExpandNeverPanics ==
    (phase = "returned" /\ definition.vars.some) => result.kind \in {"ok", "err"}

\* C16: expand applied to an object-like definition (no parameter list) binds no
\* parameter and returns the replacement token sequence verbatim, whatever the
\* argument list.
C16_ObjectLikeVerbatim ==
    (phase = "returned" /\ ~definition.vars.some) =>
        (result.kind = "ok" /\ result.tokens = Template)

(***************************************************************************)
(* directives.rs: the ReadFrom parsers and the Display renderings.         *)
(* The reader hands out lexical tokens: the source without its trivia.     *)
(***************************************************************************)
RECURSIVE lexical_from(_, _)
lexical_from(src, i) ==
    IF i > Len(src) THEN <<>>
    ELSE IF IsTrivia(src[i]) THEN lexical_from(src, i + 1)
    ELSE <<Tok(src[i], i)>> \o lexical_from(src, i + 1)
lexical(src) == lexical_from(src, 1)

\* a read leaves the cursor at .at; val is what was read
Got(i, v) == [ok |-> TRUE, at |-> i, val |-> v]
Missed(i) == [ok |-> FALSE, at |-> i, val |-> <<>>]

read_expected(lex, i, text) ==
    IF i <= Len(lex) /\ lex[i].text = text THEN Got(i + 1, lex[i]) ELSE Missed(i)
\* Option: .ok tells whether the token was there; nothing is consumed otherwise
try_read_expected(lex, i, text) ==
    IF i <= Len(lex) /\ lex[i].text = text THEN Got(i + 1, lex[i]) ELSE Missed(i)
read_token(lex, i) == IF i <= Len(lex) THEN Got(i + 1, lex[i]) ELSE Missed(i)
\* reader.read::<MacroName>() and reader.read::<StringToken>()
read_name(lex, i) ==
    IF i <= Len(lex) /\ lex[i].kind \in {"atom", "variable"} THEN Got(i + 1, lex[i])
    ELSE Missed(i)
read_string(lex, i) ==
    IF i <= Len(lex) /\ lex[i].kind = "string" THEN Got(i + 1, lex[i]) ELSE Missed(i)

\* reader.read::<MacroVariables>(): ( Var {, Var} )
RECURSIVE read_variables_from(_, _, _)
read_variables_from(lex, i, names) ==
    LET v == read_token(lex, i)
        c == read_token(lex, v.at)
    IN  IF ~v.ok \/ v.val.kind # "variable" THEN Missed(i)
        ELSE IF ~c.ok THEN Missed(v.at)
        ELSE IF c.val.text = "," THEN read_variables_from(lex, c.at, Append(names, v.val.text))
        ELSE IF c.val.text = ")" THEN Got(c.at, Append(names, v.val.text))
        ELSE Missed(v.at)
read_variables(lex, i) ==
    LET o == read_expected(lex, i, "(")
    IN  IF ~o.ok THEN o ELSE read_variables_from(lex, o.at, <<>>)

StringKinds == {"include", "include_lib", "error", "warning"}
NameKinds == {"undef", "ifdef", "ifndef"}
BareKinds == {"else", "endif"}

NotParsed == [ok |-> FALSE]
ParsedAs(kind, arg, vs, repl) ==
    [ok |-> TRUE, kind |-> kind, arg |-> arg, variables |-> vs, replacement |-> repl]

\* Include, IncludeLib, Error, Warning, Undef, Ifdef, Ifndef :: read_from
paren_read_from(kind, lex) ==
    LET h == read_expected(lex, 1, "-")
        k == read_expected(lex, h.at, kind)
        o == read_expected(lex, k.at, "(")
        a == IF kind \in StringKinds THEN read_string(lex, o.at) ELSE read_name(lex, o.at)
        c == read_expected(lex, a.at, ")")
        d == read_expected(lex, c.at, ".")
    IN  IF h.ok /\ k.ok /\ o.ok /\ a.ok /\ c.ok /\ d.ok
        THEN ParsedAs(kind, a.val.text, NoVars, <<>>)
        ELSE NotParsed

\* Else, Endif :: read_from
bare_read_from(kind, lex) ==
    LET h == read_expected(lex, 1, "-")
        k == read_expected(lex, h.at, kind)
        d == read_expected(lex, k.at, ".")
    IN  IF h.ok /\ k.ok /\ d.ok THEN ParsedAs(kind, "", NoVars, <<>>) ELSE NotParsed

\* a replacement loop whose failed probe for the dot loses the close paren
RECURSIVE read_replacement_lossy(_, _, _)
read_replacement_lossy(lex, i, replacement) ==
    LET c == try_read_expected(lex, i, ")")
        d == try_read_expected(lex, c.at, ".")
        t == read_token(lex, i)
    IN  IF c.ok
        THEN IF d.ok THEN Got(d.at, replacement)
             ELSE read_replacement_lossy(lex, c.at, replacement)
        ELSE IF ~t.ok THEN Missed(i)
        ELSE read_replacement_lossy(lex, t.at, Append(replacement, t.val))

\* the replacement loop of Define::read_from
RECURSIVE read_replacement(_, _, _)
read_replacement(lex, i, replacement) ==
    LET c == try_read_expected(lex, i, ")")
        d == try_read_expected(lex, c.at, ".")
        t == read_token(lex, i)
    IN  IF c.ok
        THEN IF d.ok THEN Got(d.at, replacement)
             ELSE read_replacement(lex, c.at, Append(replacement, c.val))
        ELSE IF ~t.ok THEN Missed(i)
        ELSE read_replacement(lex, t.at, Append(replacement, t.val))

\* Define::read_from
define_read_from(lex) ==
    LET h == read_expected(lex, 1, "-")
        k == read_expected(lex, h.at, "define")
        o == read_expected(lex, k.at, "(")
        n == read_name(lex, o.at)
        p == try_read_expected(lex, n.at, "(")
        \* the "(" is pushed back and the variable list is read from it
        vs == IF p.ok THEN read_variables(lex, n.at) ELSE Got(n.at, <<>>)
        c == read_expected(lex, vs.at, ",")
        r == read_replacement(lex, c.at, <<>>)
    IN  IF h.ok /\ k.ok /\ o.ok /\ n.ok /\ vs.ok /\ c.ok /\ r.ok
        THEN ParsedAs("define", n.val.text,
                      IF p.ok THEN SomeVars(vs.val) ELSE NoVars, r.val)
        ELSE NotParsed

\* the directive kind is chosen by the keyword
read_from(src) ==
    LET lex == lexical(src)
        kw == IF Len(lex) >= 2 THEN lex[2].text ELSE ""
    IN  IF kw = "define" THEN define_read_from(lex)
        ELSE IF kw \in BareKinds THEN bare_read_from(kw, lex)
        ELSE IF kw \in StringKinds \cup NameKinds THEN paren_read_from(kw, lex)
        ELSE NotParsed

\* MacroVariables::to_string
RECURSIVE comma_separated(_)
comma_separated(names) ==
    IF names = <<>> THEN ""
    ELSE IF Len(names) = 1 THEN names[1]
    ELSE names[1] \o "," \o comma_separated(Tail(names))
variables_to_string(vs) == "(" \o comma_separated(vs.names) \o ")"

\* impl fmt::Display for Define
define_fmt(d) ==
    "-define(" \o d.arg
        \o (IF d.variables.some THEN variables_to_string(d.variables) ELSE "")
        \o ", " \o text_of(d.replacement) \o ")."
\* impl fmt::Display for Include, IncludeLib, Error, Warning, Undef, Ifdef, Ifndef
paren_fmt(d) == "-" \o d.kind \o "(" \o d.arg \o ")."
\* impl fmt::Display for Else, Endif
bare_fmt(d) == "-" \o d.kind \o "."
fmt(d) ==
    IF d.kind = "define" THEN define_fmt(d)
    ELSE IF d.kind \in BareKinds THEN bare_fmt(d)
    ELSE paren_fmt(d)

\* well-formed directive sources, with up to MaxGaps trivia tokens between their tokens
Plain ==
    { <<"-", "define", "(", "M", ",", "a", ")", ".">>,
      <<"-", "define", "(", "M", ",", "(", "a", ")", ")", ".">>,
      <<"-", "define", "(", "M", "(", "X", ",", "Y", ")", ",", "X", "+", "Y", ")", ".">>,
      <<"-", "else", ".">>,
      <<"-", "endif", ".">> }
    \cup {<<"-", k, "(", "\"f\"", ")", ".">> : k \in StringKinds}
    \cup {<<"-", k, "(", "M", ")", ".">> : k \in NameKinds}
InsertAt(q, i, t) == SubSeq(q, 1, i) \o <<t>> \o SubSeq(q, i + 1, Len(q))
RECURSIVE Layouts(_)
Layouts(n) ==
    IF n = 0 THEN Plain
    ELSE LET fewer == Layouts(n - 1)
         IN fewer \cup UNION {{InsertAt(q, i, t) : i \in 1..(Len(q) - 1), t \in Trivia} :
                                 q \in fewer}

InitFmt ==
    /\ DriverIdle
    /\ ExpanderIdle
    /\ ResolverIdle
    /\ source \in Layouts(MaxGaps)
    /\ parsed = NotParsed
    /\ rendered = ""
    /\ step = "source"

ReadFrom ==
    /\ step = "source"
    /\ parsed' = read_from(source)
    /\ step' = "parsed"
    /\ UNCHANGED <<source, rendered>>
    /\ UNCHANGED <<driver, expander, resolver>>

Display ==
    /\ step = "parsed"
    /\ parsed.ok
    /\ rendered' = fmt(parsed)
    /\ step' = "rendered"
    /\ UNCHANGED <<source, parsed>>
    /\ UNCHANGED <<driver, expander, resolver>>

NextFmt == ReadFrom \/ Display

SpecFmt == InitFmt /\ [][NextFmt]_vars

\* the bytes of a source, token by token
RECURSIVE SourceText(_)
SourceText(src) == IF src = <<>> THEN "" ELSE src[1] \o SourceText(Tail(src))

\* C10: for every well-formed directive source, with or without whitespace and
\* comments between its tokens, the text rendered from the parsed directive equals
\* the source text from the hyphen through the dot, byte for byte.
C10_RoundTrip == step = "rendered" => rendered = SourceText(source)

\* the lexical tokens of the source being read
Lex == lexical(source)
\* the comma between the head and the body of the define directive in Lex
HeadComma ==
    IF Lex[5].text = ","
    THEN 5
    ELSE 1 + CHOOSE k \in 6..Len(Lex) :
                 Lex[k].text = ")" /\ \A j \in 6..(k - 1) : Lex[j].text # ")"
\* close paren k of Lex is followed by a dot
ClosesDirective(k) == Lex[k].text = ")" /\ k < Len(Lex) /\ Lex[k + 1].text = "."
BodyEnd ==
    CHOOSE k \in (HeadComma + 1)..Len(Lex) :
        ClosesDirective(k) /\ \A j \in (HeadComma + 1)..(k - 1) : ~ClosesDirective(j)

\* C17: the replacement read for a define directive is exactly the tokens after the
\* comma between head and body up to, and not including, the first close paren that
\* is followed by a dot; a close paren followed by anything else stays in the
\* replacement at its place, and the probe for the dot that fails takes no token.
C17_ReplacementSpan ==
    (step \in {"parsed", "rendered"} /\ Len(Lex) > 1 /\ Lex[2].text = "define") =>
        /\ parsed.ok
        /\ parsed.replacement = SubSeq(Lex, HeadComma + 1, BodyEnd - 1)
C17_Witness ==
    /\ step = "parsed"
    /\ Len(source) > Len(Lex)
    /\ parsed.ok /\ parsed.kind = "define"
    /\ [i \in 1..Len(parsed.replacement) |-> parsed.replacement[i].text] = <<"(", "a", ")">>

(***************************************************************************)
(* directives.rs: IncludeLib::include_lib.  A path is the sequence of its  *)
(* components; every component of the model is valid UTF-8.                *)
(***************************************************************************)
PathVariables == {"$APP", "$NONE"}
Env == [v \in {"$APP"} |-> "app"]
AppNames == {"app", "lib", "kernel", "include", "x.hrl"}
Versions == <<"1", "2">>
\* the directory names a search path may hold, in the order glob yields them
Listing == <<"app-1", "app-2", "lib-1">>
Roots == {"r1", "r2"}

\* util::substitute_path_variables: fails on a variable that is not set
substitute_path_variables(p) ==
    IF \E i \in 1..Len(p) : p[i] \in PathVariables \ DOMAIN Env
    THEN [ok |-> FALSE, path |-> <<>>]
    ELSE [ok |-> TRUE,
          path |-> [i \in 1..Len(p) |-> IF p[i] \in DOMAIN Env THEN Env[p[i]] ELSE p[i]]]

\* Component::Normal, as opposed to RootDir and ParentDir
IsNormal(c) == c \notin {"/", ".."}

\* name matches the pattern `<application>-*`
GlobMatch(pattern, name) ==
    \E a \in AppNames, i \in 1..Len(Versions) :
        pattern = a \o "-*" /\ name = a \o "-" \o Versions[i]

\* glob::glob on the pattern <<root, pattern>>: one item per matching entry of the
\* directory, in order; a directory that cannot be read yields an error item
RECURSIVE glob_from(_, _)
glob_from(pattern, i) ==
    IF i > Len(Listing) THEN <<>>
    ELSE (IF Listing[i] \in tree[pattern[1]].names /\ GlobMatch(pattern[2], Listing[i])
          THEN <<[ok |-> TRUE, path |-> <<pattern[1], Listing[i]>>]>>
          ELSE <<>>) \o glob_from(pattern, i + 1)

glob(pattern) ==
    IF ~tree[pattern[1]].readable THEN <<[ok |-> FALSE, path |-> <<>>]>>
    ELSE glob_from(pattern, 1)

\* a resolver that drops the components after the application name
matched_path_bare(entry, components) == entry

\* path = entry; for c in components { path.push(c) }
matched_path(entry, components) == entry \o components

\* 'root: for root in code_paths, from the i-th on; p is the literal path
RECURSIVE search(_, _, _, _, _)
search(roots, i, pattern, components, p) ==
    IF i > Len(roots) THEN [ok |-> TRUE, path |-> p, globbed |-> roots]
    ELSE LET entries == glob(<<roots[i], pattern>>)
         IN  IF entries = <<>> THEN search(roots, i + 1, pattern, components, p)
             ELSE IF ~entries[1].ok
             THEN [ok |-> FALSE, path |-> <<>>, globbed |-> SubSeq(roots, 1, i)]
             ELSE [ok |-> TRUE, path |-> matched_path(entries[1].path, components),
                   globbed |-> SubSeq(roots, 1, i)]

\* what the call returned: kind is "ok" or the step that failed, read the path handed
\* to util::read_file, globbed the search paths that were globbed
Included(kind, p, rd, globbed) ==
    [kind |-> kind, path |-> p, read |-> rd, globbed |-> globbed]

\* readable: whether util::read_file can read the file at the resolved path
include_lib(p, roots, readable) ==
    LET s == substitute_path_variables(p)
    IN  IF ~s.ok THEN Included("substitute_err", <<>>, <<>>, <<>>)
        ELSE LET f == IF Len(s.path) > 0 /\ IsNormal(s.path[1])
                      THEN search(roots, 1, s.path[1] \o "-*", Tail(s.path), s.path)
                      ELSE [ok |-> TRUE, path |-> s.path, globbed |-> <<>>]
             IN  IF ~f.ok THEN Included("glob_err", <<>>, <<>>, f.globbed)
                 ELSE IF readable THEN Included("ok", f.path, f.path, f.globbed)
                 ELSE Included("read_err", <<>>, f.path, f.globbed)

Literals ==
    { <<"app", "include", "x.hrl">>, <<"app">>, <<"lib", "x.hrl">>, <<"kernel", "x.hrl">>,
      <<"$APP", "x.hrl">>, <<"$NONE", "x.hrl">>, <<"/", "app", "x.hrl">>, <<>> }
Listings ==
    {[readable |-> TRUE, names |-> ns] : ns \in SUBSET {Listing[i] : i \in 1..Len(Listing)}}
        \cup {[readable |-> FALSE, names |-> {}]}
RootLists == UNION {[1..n -> Roots] : n \in 0..MaxRoots}

InitInclude ==
    /\ DriverIdle
    /\ ExpanderIdle
    /\ FormatterIdle
    /\ path \in Literals
    /\ code_paths \in RootLists
    /\ tree \in [Roots -> Listings]
    /\ included = [kind |-> "none", path |-> <<>>, read |-> <<>>, globbed |-> <<>>]
    /\ call = "call"

\* IncludeLib::include_lib
IncludeLib ==
    /\ call = "call"
    /\ \E readable \in BOOLEAN : included' = include_lib(path, code_paths, readable)
    /\ call' = "returned"
    /\ UNCHANGED <<path, code_paths, tree>>
    /\ UNCHANGED <<driver, expander, formatter>>

NextInclude == IncludeLib

SpecInclude == InitInclude /\ [][NextInclude]_vars

\* the variable-substituted literal path
Substituted == substitute_path_variables(path).path
\* the search paths (by their place in the list) that hold a match of `<root>/A-*`
Matching ==
    {i \in 1..Len(code_paths) :
        /\ tree[code_paths[i]].readable
        /\ \E n \in tree[code_paths[i]].names : GlobMatch(Substituted[1] \o "-*", n)}
FirstMatching == CHOOSE i \in Matching : \A j \in Matching : i <= j
\* the first match of the pattern in a search path that has one
FirstMatchIn(root) ==
    LET k == CHOOSE k \in 1..Len(Listing) :
                 /\ Listing[k] \in tree[root].names
                 /\ GlobMatch(Substituted[1] \o "-*", Listing[k])
                 /\ \A j \in 1..(k - 1) :
                       ~(Listing[j] \in tree[root].names
                         /\ GlobMatch(Substituted[1] \o "-*", Listing[j]))
    IN  <<root, Listing[k]>>
\* the call is one the claim speaks of: the path starts with an application name and
\* no search path up to the first one with a match fails to be read
ApplicationPath ==
    /\ call = "returned"
    /\ substitute_path_variables(path).ok
    /\ Len(Substituted) > 0 /\ IsNormal(Substituted[1])
    /\ \A i \in 1..Len(code_paths) :
          (Matching = {} \/ i < FirstMatching) => tree[code_paths[i]].readable

\* C13: for a path whose first component is an application name A, include_lib
\* resolves to the first glob match of <root>/A-* in the first search path, in list
\* order, that has any match, followed by the remaining components of the path; to
\* the substituted literal path, unchanged, when no search path has a match; the
\* search paths after the first one with a match are not used.
C13_IncludeLibResolution ==
    ApplicationPath =>
        /\ included.kind \in {"ok", "read_err"}
        /\ included.kind = "ok" => included.path = included.read
        /\ IF Matching = {}
           THEN included.read = Substituted /\ included.globbed = code_paths
           ELSE /\ included.read = FirstMatchIn(code_paths[FirstMatching]) \o Tail(Substituted)
                /\ included.globbed = SubSeq(code_paths, 1, FirstMatching)
\* the first search path has two matches and a later, different one has another
C13_Witness ==
    /\ ApplicationPath
    /\ included.kind = "ok"
    /\ Len(Substituted) > 1
    /\ Matching # {} /\ FirstMatching = 1
    /\ {"app-1", "app-2"} \subseteq tree[code_paths[1]].names
    /\ \E j \in Matching : tree[code_paths[j]].names = {"app-2"}
\* the first search path has no match, the second has two
C13_WitnessSkipped ==
    /\ ApplicationPath
    /\ included.kind = "ok"
    /\ Matching # {} /\ FirstMatching > 1
    /\ {"app-1", "app-2"} \subseteq tree[code_paths[FirstMatching]].names
    /\ path[1] = "$APP"
C13_WitnessFallback ==
    /\ ApplicationPath
    /\ included.kind = "ok"
    /\ Matching = {} /\ Len(code_paths) > 1

(***************************************************************************)
(* Vocabulary of the driver's claims                                       *)
(***************************************************************************)
Emitted == {output[i] : i \in 1..Len(output)}
InDirective(p) == \E k \in 1..Len(directives) : directives[k].from <= p /\ p < directives[k].to
\* the texts of the replacement span recorded for define directive d
ReplacementOf(d) == SubSeq(input, d.start, d.end - 1)
\* directive k is the latest define or undef of its name recorded before token p
LatestFor(k, p) ==
    /\ directives[k].kind \in {"define", "undef"}
    /\ directives[k].to <= p
    /\ \A j \in (k + 1)..Len(directives) :
          ~(directives[j].kind \in {"define", "undef"}
            /\ directives[j].name = directives[k].name /\ directives[j].to <= p)
\* token p is a bare reference to a name whose object-like definition is in force
LiveObjectReference(p) ==
    /\ ~InDirective(p)
    /\ \E k \in 1..Len(directives) :
          /\ LatestFor(k, p)
          /\ directives[k].kind = "define"
          /\ ~directives[k].vars.some
          /\ directives[k].name = input[p]
\* token p is a bare reference to a name whose latest directive before p is an undef
UndefinedReference(p) ==
    /\ ~InDirective(p)
    /\ p \notin skipped
    /\ \E k \in 1..Len(directives) :
          LatestFor(k, p) /\ directives[k].kind = "undef" /\ directives[k].name = input[p]
\* the directive the latest pull recognized
Recognized == directives[Len(directives)]
\* the keyword a directive attempt starting at token p dispatches on
KeywordAt(p) ==
    IF p > Len(input) \/ input[p] # "-" THEN ""
    ELSE LET q == skip_whitespace_or_comment([pos |-> p + 1, txs |-> <<>>]).pos
         IN  IF q <= Len(input) /\ IsAtom(input[q]) THEN input[q] ELSE ""
\* a well-formed -ifdef(Name). / -ifndef(Name). starts at token p
ConditionalAt(p) ==
    /\ p + 5 <= Len(input)
    /\ input[p] = "-" /\ input[p + 1] \in {"ifdef", "ifndef"} /\ input[p + 2] = "("
    /\ (IsVariable(input[p + 3]) \/ IsAtom(input[p + 3]))
    /\ input[p + 4] = ")" /\ input[p + 5] = "."

\* C1: after a well-formed object-like -define(NAME, tok1 tok2 ...). at a statement
\* boundary, a later bare reference to NAME (no undef or redefinition in between) is
\* replaced in the output by tok1 tok2 ...: the reference token itself is never an
\* item of the output sequence.
C1_ReferenceReplaced == \A p \in Emitted : ~LiveObjectReference(p)

\* C2: no token consumed as part of a recognized directive, from its leading hyphen
\* through its terminating dot, is ever yielded by the output sequence; the pull
\* that recognizes a directive records it in the directive list.
C2_DirectiveNotEmitted ==
    /\ \A p \in Emitted : ~InDirective(p)
    /\ last.found =>
          /\ Len(directives) > 0
          /\ Recognized.from = last.at
          /\ input[Recognized.from] = "-"
          /\ input[Recognized.to - 1] = "."
C2_Witness ==
    /\ Len(directives) > 0
    /\ \E p \in Emitted : p >= directives[1].to /\ ~IsTrivia(input[p])

\* C3: after two recognized define directives for the same name (whatever their
\* arities) the macro table's entry for the name is the index of the later one, so
\* the replacement looked up for the name is the later replacement.
C3_LaterDefineWins ==
    \A j, k \in 1..Len(directives) :
        ( /\ j < k
          /\ directives[j].kind = "define" /\ directives[k].kind = "define"
          /\ directives[j].name = directives[k].name
          /\ \A l \in (k + 1)..Len(directives) : directives[l].name # directives[k].name )
        => /\ directives[k].name \in DOMAIN macros
           /\ macros[directives[k].name] = k - 1
           /\ ReplacementOf(directives[macros[directives[k].name] + 1])
                 = SubSeq(input, directives[k].start, directives[k].end - 1)
C3_Witness ==
    \E j, k \in 1..Len(directives) :
        /\ j < k
        /\ directives[j].kind = "define" /\ directives[k].kind = "define"
        /\ directives[j].name = directives[k].name
        /\ directives[j].vars.some # directives[k].vars.some
        /\ ReplacementOf(directives[j]) # ReplacementOf(directives[k])
        /\ macros[directives[k].name] = k - 1

\* C4: after a recognized -undef(M). the name M is unbound, whether or not it was
\* bound before; when it was not bound the pull raises no error and the table is
\* unchanged; the entries of all other names are unchanged; and a later bare
\* reference to M is emitted as an ordinary token.
C4_Undef ==
    /\ (last.found /\ Recognized.kind = "undef") =>
          /\ Recognized.name \notin DOMAIN macros
          /\ DOMAIN macros = DOMAIN last.before \ {Recognized.name}
          /\ \A n \in DOMAIN macros : macros[n] = last.before[n]
          /\ Recognized.name \notin DOMAIN last.before =>
                (macros = last.before /\ last.kind \in {"token", "end"})
    /\ \A p \in 1..(reader.pos - 1) : UndefinedReference(p) => p \in Emitted
C4_Witness ==
    \E p \in Emitted :
        /\ UndefinedReference(p)
        /\ \E j \in 1..Len(directives) :
              /\ directives[j].kind = "define"
              /\ directives[j].name = input[p]
              /\ directives[j].to <= p
C4_WitnessUnbound ==
    /\ last.found /\ Recognized.kind = "undef"
    /\ Recognized.name \notin DOMAIN last.before

\* C8: the pull that meets a well-formed -ifdef(M). (or -ifndef(M).) at a statement
\* boundary recognizes it, and the token that follows it in the then-branch is
\* emitted only if M is bound (for -ifndef: not bound) at that point.
C8_ConditionalBranch ==
    (last.attempted /\ ConditionalAt(last.at)) =>
        /\ last.kind # "panic"
        /\ last.found
        /\ last.kind = "token" =>
              ((input[last.at + 1] = "ifdef") = (input[last.at + 3] \in DOMAIN last.before))

\* C9: an -else. or -endif. met while no conditional frame is open makes the pull
\* return a structural error, an error item of the sequence and not a crash.
C9_UnmatchedIsError ==
    (last.attempted /\ KeywordAt(last.at) \in {"else", "endif"}) =>
        (last.kind = "error" /\ status = "running")

\* the prefix of the input, every token in its place
Verbatim(n) == [i \in 1..n |-> i]
\* the latest pull made a directive attempt that dispatched on a directive keyword
AttemptedKeyword == last.attempted /\ KeywordAt(last.at) \in Keywords

\* C11: text without directives passes through token for token, whitespace and
\* comments included.  A pull that does not meet a directive keyword after a
\* statement-boundary hyphen (the hyphen of -m. among them) rolls its speculative read
\* back and yields exactly the next token of the input, the hyphen itself first; as
\* long as no directive was met the output is the input read so far, unchanged.
C11_PassThrough ==
    /\ (last.kind # "none" /\ ~AttemptedKeyword) =>
          /\ ~last.found
          /\ macros = last.before
          /\ skipped = {} => reader.txs = <<>>
          /\ IF last.at <= Len(input)
             THEN /\ last.kind = "token"
                  /\ last.tok = last.at
                  /\ output[Len(output)] = last.at
                  /\ reader.pos = last.at + 1
             ELSE last.kind = "end"
    /\ (directives = <<>> /\ skipped = {}) => output = Verbatim(reader.pos - 1)
C11_Witness ==
    /\ directives = <<>>
    /\ skipped = {}
    /\ \E i \in 1..(Len(output) - 3) :
          /\ input[output[i]] = "-"
          /\ output[i] = 1 \/ input[output[i] - 1] = " "
          /\ input[output[i + 1]] = "m"
          /\ input[output[i + 2]] = "."
          /\ IsTrivia(input[output[i + 3]])

\* C12: a well-formed -error(...) directive at a statement boundary makes the pull
\* that meets it return an error item at that point; the directive is not merely
\* recorded while the sequence goes on.
C12_ErrorDirectiveFails ==
    (last.found /\ Recognized.kind = "error") => last.kind = "error"

\* the places in the output of the tokens that are not whitespace or comments
Solid == {i \in 1..Len(output) : ~IsTrivia(input[output[i]])}
LastSolid == CHOOSE i \in Solid : \A j \in Solid : j <= i

\* C14: at the start of every pull can_directive_start is true if and only if no
\* non-trivia token has been emitted yet or the most recently emitted non-trivia
\* token is the dot; a pull that emits whitespace or a comment, and the recognition
\* of a directive, leave the flag as it was.
C14_FlagTracksDot ==
    /\ can_directive_start <=> (Solid = {} \/ input[output[LastSolid]] = ".")
    /\ (last.kind = "token" /\ IsTrivia(input[last.tok])) =>
          can_directive_start = last.attempted
    /\ last.kind \in {"end", "error", "panic"} => can_directive_start = last.attempted
C14_Witness ==
    /\ last.found
    /\ last.kind = "token" /\ IsTrivia(input[last.tok])
    /\ can_directive_start
    /\ Solid # {}
    /\ \E i \in Solid : input[output[i]] # "."

\* the text of token p, the position of the first token from p on that is not trivia
At(p) == IF p <= Len(input) THEN input[p] ELSE "<eof>"
Skip(p) == skip_whitespace_or_comment([pos |-> p, txs |-> <<>>]).pos
IsName(t) == IsAtom(t) \/ IsVariable(t)
\* from token p on there is a close paren followed by a dot
Terminated(p) == \E q \in p..Len(input) : At(q) = ")" /\ At(Skip(q + 1)) = "."
\* `( Name ) .` starts at p
ShapeName(p) ==
    LET a == Skip(p)
        n == Skip(a + 1)
        c == Skip(n + 1)
    IN  At(a) = "(" /\ IsName(At(n)) /\ At(c) = ")" /\ At(Skip(c + 1)) = "."
\* `Var {, Var} ) , Token* ) .` starts at p
RECURSIVE ShapeParameters(_)
ShapeParameters(p) ==
    LET v == Skip(p)
        s == Skip(v + 1)
    IN  /\ IsVariable(At(v))
        /\ \/ At(s) = "," /\ ShapeParameters(s + 1)
           \/ At(s) = ")" /\ At(Skip(s + 1)) = "," /\ Terminated(Skip(s + 1) + 1)
\* `( Name [ ( Var {, Var} ) ] , Token* ) .` starts at p
ShapeDefine(p) ==
    LET a == Skip(p)
        n == Skip(a + 1)
        s == Skip(n + 1)
    IN  /\ At(a) = "(" /\ IsName(At(n))
        /\ \/ At(s) = "," /\ Terminated(s + 1)
           \/ At(s) = "(" /\ ShapeParameters(s + 1)
\* the tokens after the keyword of the directive attempt at hyphen p have the shape
\* of that keyword's directive
WellShaped(p) ==
    LET kw == KeywordAt(p)
        q == Skip(p + 1) + 1
    IN  IF kw \in {"undef", "ifdef", "ifndef"} THEN ShapeName(q)
        ELSE IF kw \in {"else", "endif"} THEN At(Skip(q)) = "."
        ELSE IF kw = "define" THEN ShapeDefine(q)
        ELSE IF kw \in {"error", "warning"} THEN At(Skip(q)) = "(" /\ Terminated(Skip(q) + 1)
        ELSE FALSE

\* C15: when a statement-boundary hyphen is followed by a directive keyword and the
\* tokens after the keyword deviate from the directive's shape, the pull returns an
\* error: it emits nothing (the hyphen and the keyword are not passed through),
\* records no directive and leaves the macro table as it was.
C15_MalformedIsError ==
    (AttemptedKeyword /\ ~WellShaped(last.at)) =>
        /\ last.kind = "error"
        /\ status = "running"
        /\ ~last.found
        /\ macros = last.before
        /\ last.at \notin Emitted

\* C18: after a directive is recognized at a statement boundary, recognition is
\* attempted again before any token is emitted: of two well-formed directives
\* written back to back both are recognized and no token of either is emitted, so
\* the token a recognizing pull yields is never the hyphen of a well-formed directive.
C18_BackToBack ==
    (last.found /\ last.kind = "token") =>
        ~(KeywordAt(last.tok) \in Keywords /\ WellShaped(last.tok))

\* C19: the replacement span recorded for a define directive starts right after the
\* comma that separates the macro head from the body, in the object-like and in the
\* parameterized form alike: the comma is required after the parameter list, precedes
\* the span and is not part of it.
C19_SpanAfterComma ==
    \A k \in 1..Len(directives) :
        directives[k].kind = "define" =>
            /\ WellShaped(directives[k].from)
            /\ input[directives[k].start - 1] = ","
            /\ directives[k].vars.some =>
                  input[Skip(directives[k].start)] # ","

\* C21: once the sequence has yielded an error item it does not resume: every later
\* pull yields end-of-sequence, neither a further token nor a further error.  (The
\* tokens in skipped are those consumed by the pulls that ended in an error.)
C21_NoResumeAfterError ==
    (status = "running" /\ skipped # {}) =>
        IF last.kind = "error"
        THEN skipped = last.at..(reader.pos - 1)
        ELSE last.kind = "end"

\* C22: every reader transaction opened by a pull is committed or aborted before the
\* pull returns, whether it returns a token, end of input or an error: between pulls
\* no transaction is open.
C22_NoOpenTransaction == status = "running" => reader.txs = <<>>

\* C23: after every pull that returns without error, every entry name -> index of
\* the macro table has an index below the length of the directive list (indices
\* count from 0), and the directive recorded there is a define of that name, the
\* most recent one, with no undef of the name recorded after it.
C23_TableIndexesDirectives ==
    last.kind \in {"token", "end"} =>
        \A n \in DOMAIN macros :
            /\ macros[n] \in 0..(Len(directives) - 1)
            /\ directives[macros[n] + 1].kind = "define"
            /\ directives[macros[n] + 1].name = n
            /\ \A j \in (macros[n] + 2)..Len(directives) :
                  ~(directives[j].kind \in {"define", "undef"} /\ directives[j].name = n)
\* a name defined, undefined and defined again, the table pointing at the last define
C23_Witness ==
    /\ last.kind = "token"
    /\ \E n \in DOMAIN macros : \E j, k \in 1..Len(directives) :
          /\ j < k /\ k < macros[n] + 1
          /\ directives[j].kind = "define" /\ directives[j].name = n
          /\ directives[k].kind = "undef" /\ directives[k].name = n

TypeOK ==
    /\ reader.pos \in 1..(Len(input) + 1)
    /\ status \in {"running", "panicked"}
    /\ \A n \in DOMAIN macros : macros[n] \in 0..Len(directives)
====
